---- MODULE Spec2Model ----
(***************************************************************************)
(* A model of src/main.py: the FastAPI service with GET /ping and the      *)
(* rate-limited POST /about-louai, which validates the message, picks a    *)
(* topic by keyword, builds a prompt and calls the chat completion API.    *)
(*                                                                         *)
(* Text is a sequence of one-character strings, so that lower(), strip(),  *)
(* split() and the substring test `in` are computed and not assumed.       *)
(***************************************************************************)
EXTENDS Integers, Sequences, FiniteSets, Bags, TLC

(***************************************************************************)
(* Bounds of the model.                                                    *)
(***************************************************************************)
\* how many fragments a generated message is built from
MaxFrags == 2
\* how many POST /about-louai requests the first client sends
MaxReq == 7
\* how many POST /about-louai requests each other client sends
MaxOther == 1
\* how many requests are in flight at once
MaxInFlight == 2
\* the clock stops here
MaxTime == 60

(***************************************************************************)
(* Text: str.lower, str.strip, str.split and the substring test.           *)
(***************************************************************************)
UpperToLower ==
  ("A" :> "a") @@ ("B" :> "b") @@ ("C" :> "c") @@ ("D" :> "d") @@ ("E" :> "e") @@ ("F" :> "f") @@ ("G" :> "g") @@ ("H" :> "h") @@ ("I" :> "i") @@ ("J" :> "j") @@ ("K" :> "k") @@ ("L" :> "l") @@ ("M" :> "m") @@ ("N" :> "n") @@ ("O" :> "o") @@ ("P" :> "p") @@ ("Q" :> "q") @@ ("R" :> "r") @@ ("S" :> "s") @@ ("T" :> "t") @@ ("U" :> "u") @@ ("V" :> "v") @@ ("W" :> "w") @@ ("X" :> "x") @@ ("Y" :> "y") @@ ("Z" :> "z")

\* str.lower() on one character (the ASCII letters; other characters of the
\* model's alphabet have no case)
LowerChar(c) == IF c \in DOMAIN UpperToLower THEN UpperToLower[c] ELSE c

\* a lower() that forgets to fold the case
LowerIdentity(s) == s

\* message.lower()
lower(s) == [i \in 1..Len(s) |-> LowerChar(s[i])]

\* the characters strip() and split() treat as white space
Whitespace == {" ", "\t", "\n"}

\* `word in msg` on two strings
Contains(msg, word) ==
  \E i \in 0..(Len(msg) - Len(word)) : SubSeq(msg, i + 1, i + Len(word)) = word

\* any(word in msg for word in keywords)
AnyIn(keywords, msg) ==
  \E k \in 1..Len(keywords) : Contains(msg, keywords[k])

\* a strip() that strips nothing
StripNothing(s) == s

\* str.strip(): the text between the first and the last non-blank character
strip(s) ==
  LET solid == {i \in 1..Len(s) : s[i] \notin Whitespace}
  IN  IF solid = {} THEN <<>>
      ELSE LET lo == CHOOSE i \in solid : \A j \in solid : i <= j
               hi == CHOOSE i \in solid : \A j \in solid : j <= i
           IN  SubSeq(s, lo, hi)

\* len(msg.split()): the number of maximal runs of non-blank characters
SplitLen(s) ==
  Cardinality({i \in 1..Len(s) :
                 /\ s[i] \notin Whitespace
                 /\ (i = 1 \/ s[i - 1] \in Whitespace)})

(***************************************************************************)
(* The keyword table and the two classifiers.                              *)
(***************************************************************************)
KEY_TOPICS ==
  << [topic |-> "skills",
      keywords |-> << <<"s", "k", "i", "l", "l">>,
                     <<"t", "e", "c", "h">>,
                     <<"t", "e", "c", "h", "n", "o", "l", "o", "g", "y">>,
                     <<"s", "t", "a", "c", "k">>,
                     <<"t", "o", "o", "l", "s">>,
                     <<"p", "r", "o", "g", "r", "a", "m", "m", "i", "n", "g">>,
                     <<"l", "a", "n", "g", "u", "a", "g", "e", "s">>,
                     <<"f", "r", "a", "m", "e", "w", "o", "r", "k">> >>],
     [topic |-> "projects",
      keywords |-> << <<"p", "r", "o", "j", "e", "c", "t">>,
                     <<"w", "o", "r", "k">>,
                     <<"e", "x", "p", "e", "r", "i", "e", "n", "c", "e">>,
                     <<"b", "u", "i", "l", "d">>,
                     <<"p", "o", "r", "t", "f", "o", "l", "i", "o">>,
                     <<"c", "o", "d", "e">>,
                     <<"a", "p", "p">> >>],
     [topic |-> "personality",
      keywords |-> << <<"p", "e", "r", "s", "o", "n", "a", "l", "i", "t", "y">>,
                     <<"s", "o", "f", "t", " ", "s", "k", "i", "l", "l", "s">>,
                     <<"a", "t", "t", "i", "t", "u", "d", "e">>,
                     <<"w", "o", "r", "k", " ", "s", "t", "y", "l", "e">>,
                     <<"v", "a", "l", "u", "e", "s">>,
                     <<"p", "h", "i", "l", "o", "s", "o", "p", "h", "y">> >>],
     [topic |-> "goals",
      keywords |-> << <<"g", "o", "a", "l">>,
                     <<"d", "r", "e", "a", "m">>,
                     <<"s", "t", "a", "r", "t", "u", "p">>,
                     <<"v", "i", "s", "i", "o", "n">>,
                     <<"f", "u", "t", "u", "r", "e">>,
                     <<"a", "m", "b", "i", "t", "i", "o", "n">>,
                     <<"c", "a", "r", "e", "e", "r">> >>],
     [topic |-> "languages",
      keywords |-> << <<"l", "a", "n", "g", "u", "a", "g", "e">>,
                     <<"s", "p", "e", "a", "k">>,
                     <<"f", "l", "u", "e", "n", "t">>,
                     <<"c", "o", "m", "m", "u", "n", "i", "c", "a", "t", "i", "o", "n">>,
                     <<"m", "u", "l", "t", "i", "l", "i", "n", "g", "u", "a", "l">> >>],
     [topic |-> "general",
      keywords |-> <<  >>] >>

\* the table with `languages` tested before `skills`
KeyTopicsLanguagesFirst ==
  <<KEY_TOPICS[5], KEY_TOPICS[2], KEY_TOPICS[3], KEY_TOPICS[4], KEY_TOPICS[1],
    KEY_TOPICS[6]>>

\* KEY_TOPICS.items(): the table in insertion order
TopicItems == KEY_TOPICS

\* the loop of detect_topic from item i on: the first item with a keyword in
\* msg, "general" when the loop runs out
RECURSIVE DetectFrom(_, _)
DetectFrom(msg, i) ==
  IF i > Len(TopicItems) THEN "general"
  ELSE IF AnyIn(TopicItems[i].keywords, msg) THEN TopicItems[i].topic
  ELSE DetectFrom(msg, i + 1)

\* msg = message.lower() in detect_topic
TopicLower(message) == lower(message)

detect_topic(message) == DetectFrom(TopicLower(message), 1)

simple_keywords ==
  << <<"w", "h", "a", "t">>,
     <<"w", "h", "o">>,
     <<"w", "h", "e", "r", "e">>,
     <<"w", "h", "e", "n">>,
     <<"w", "h", "y">>,
     <<"h", "o", "w">>,
     <<"y", "o", "u", "r", " ", "n", "a", "m", "e">>,
     <<"s", "k", "i", "l", "l">>,
     <<"l", "a", "n", "g", "u", "a", "g", "e">>,
     <<"h", "e", "l", "l", "o">> >>

SIMPLE_MAX_WORDS == 10

is_simple_question(message) ==
  LET msg == lower(message)
  IN  SplitLen(msg) <= SIMPLE_MAX_WORDS /\ AnyIn(simple_keywords, msg)

\* length_instruction of about_me
LengthInstruction(is_simple) ==
  IF is_simple THEN "Keep it short and direct (1-2 sentences)."
  ELSE "Provide a professional and concise answer."

\* the if/elif chain of about_me that picks the template; the prompt is the
\* template with the length instruction and the message filled in
BuildPrompt(detected, is_simple, message) ==
  [template |-> CASE detected = "skills" -> "skills"
                  [] detected = "projects" -> "projects"
                  [] detected = "personality" -> "personality"
                  [] detected = "goals" -> "goals"
                  [] detected = "languages" -> "languages"
                  [] OTHER -> "general",
   length_instruction |-> LengthInstruction(is_simple),
   question |-> message]

(***************************************************************************)
(* Inputs.                                                                 *)
(***************************************************************************)
LanguagesQuestion ==
  <<"W", "h", "a", "t", " ", "l", "a", "n", "g", "u", "a", "g", "e", "s", " ", "d", "o", " ", "y", "o", "u", " ", "s", "p", "e", "a", "k", "?">>

ElevenWords ==
  <<"w", "h", "o", " ", "a", " ", "b", " ", "c", " ", "d", " ", "e", " ", "f", " ", "g", " ", "h", " ", "i", " ", "j">>

Fragments ==
  { <<"S", "k", "i", "l", "l">>,
    <<"T", "E", "C", "H">>,
    <<"P", "r", "o", "j", "e", "c", "t">>,
    <<"w", "o", "r", "k", " ", "s", "t", "y", "l", "e">>,
    <<"v", "a", "l", "u", "e", "s">>,
    <<"s", "o", "f", "t", " ", "s", "k", "i", "l", "l", "s">>,
    <<"g", "o", "a", "l">>,
    <<"C", "A", "R", "E", "E", "R">>,
    <<"s", "p", "e", "a", "k">>,
    <<"l", "a", "n", "g", "u", "a", "g", "e">>,
    <<"l", "a", "n", "g", "u", "a", "g", "e", "s">>,
    <<"F", "l", "u", "e", "n", "t">>,
    <<"h", "e", "l", "l", "o">>,
    <<"x", "y", "z">>,
    <<" ">>,
    <<"W", "h", "a", "t", " ">>,
    <<"a", "p", "p">> }

\* the texts made of at most n fragments
RECURSIVE Concats(_)
Concats(n) ==
  IF n = 0 THEN {<<>>}
  ELSE LET shorter == Concats(n - 1)
       IN  shorter \cup {s \o f : s \in shorter, f \in Fragments}

\* the messages the classifiers are applied to
Messages == Concats(MaxFrags) \cup {LanguagesQuestion, ElevenWords}

NoPrompt == [template |-> "none", length_instruction |-> "", question |-> <<>>]

\* the messages the service is sent: empty, blank, and a question
ServiceMessages == {<<>>, <<" ", "\t">>, <<"h", "e", "l", "l", "o">>}

\* get_remote_address(request): the callers
Clients == {"10.0.0.1", "10.0.0.2"}

Routes == {"/ping", "/about-louai"}

\* every route decorated
AllRoutesLimited == Routes

\* the routes decorated with @limiter.limit
LimitedRoutes == {"/about-louai"}

\* "5/minute": 5 hits in a window of 60 seconds
LIMIT == 5
WINDOW == 60

\* how far the clock moves in one step: half a window, so that a call can fall
\* in the first or the second half of a window, or on its end
TickSteps == {30}

(***************************************************************************)
(* The limiter: slowapi's default strategy (fixed window) over its default *)
(* storage (in memory, one counter and one expiry per key).                *)
(***************************************************************************)
\* the storage key of a limit: the caller's address and the route
Key(client, route) == <<client, route>>

Keys == Clients \X Routes

\* an entry whose expiry is past is dropped before it is read
StorageGet(count, expiry, t) == IF expiry <= t THEN 0 ELSE count

\* an expiry moved by every hit
ElasticExpiry(count, expiry, t) == t + WINDOW

\* the expiry is set by the hit that opens the window, and kept by the others
NewExpiry(count, expiry, t) == IF count = 1 THEN t + WINDOW ELSE expiry

\* a limit that lets one more through
WithinLimitOffByOne(count) == count <= LIMIT + 1

\* hit(): the counter after the increment is within the limit
WithinLimit(count) == count <= LIMIT

(***************************************************************************)
(* Requests, responses and the steps of about_me.                          *)
(***************************************************************************)
\* validation after the prompt is built
PromptBeforeValidate == <<"limit", "prompt", "validate", "gateway">>

\* the limit checked after the prompt is built
PromptBeforeLimit == <<"validate", "prompt", "limit", "gateway">>

\* the order of a POST /about-louai: the limiter's wrapper runs the check and
\* then the body of about_me, which validates, builds the prompt and calls
\* the gateway
Pipeline == <<"limit", "validate", "prompt", "gateway">>

\* what openai.chat.completions.create and the reading of its result can do
GatewayOutcomes == {"ok", "raises", "no_choices", "null_content"}

\* response.choices[0].message.content of a successful call
CompletionText == <<" ", "H", "i", ".", "\n">>

\* str(e) of the exception each failure raises
ExceptionText(outcome) ==
  CASE outcome = "raises" -> "Error code: 401 - Incorrect API key provided"
    [] outcome = "no_choices" -> "list index out of range"
    [] outcome = "null_content" -> "'NoneType' object has no attribute 'strip'"
    [] OTHER -> ""

GENERIC_DETAIL == "Something went wrong while processing your request."

\* a handler that answers with the exception's text
LeakedDetail(e) == e

\* the detail of the HTTPException raised by the except clause
ErrorDetail(e) == GENERIC_DETAIL

\* the body of the 429 that slowapi's handler sends
RATE_LIMIT_BODY == [error |-> "Rate limit exceeded: 5 per 1 minute"]

\* a request before anything has run for it, and "no response yet"
NoRequest ==
  [route |-> "none", pos |-> 0, client |-> "none", msg |-> <<>>,
   limited |-> "none", classified |-> FALSE, prompt |-> NoPrompt,
   gateway |-> "none", status |-> 0, body |-> <<>>, log |-> "", waiting |-> 0]

NoWindow == [anchor |-> 0, decided |-> 0, accepted |-> 0]

VARIABLES
  q, pc, topic, simple, prompt, \* one Question through lines 104-169
  now,          \* time.time(), in seconds
  storage,      \* the limiter's counters, by key
  expirations,  \* the limiter's expiry times, by key
  pending,      \* the POST /about-louai requests that wait for the event loop:
                \* a bag of clients
  nreq,         \* per client, how many POST /about-louai requests have arrived
  last,         \* the request answered last, with its response
  window,       \* history: per client, the 60 seconds that began with its first
                \* call not in an earlier such window, and the calls decided
                \* and accepted in them
  accepts       \* history: per client, the times of the calls accepted in the
                \* last 60 seconds

pvars == <<q, pc, topic, simple, prompt>>
svars == <<now, storage, expirations, pending, nreq, last, window, accepts>>
vars ==
  <<q, pc, topic, simple, prompt, now, storage, expirations, pending, nreq, last,
    window, accepts>>

\* how many requests wait, and how many of one client
InFlight == BagCardinality(pending)
Waiting(c) == CopiesIn(c, pending)

Done == Len(Pipeline) + 1

\* the state after construction: no counters, no requests
ServiceInit ==
  /\ now = 0
  /\ storage = [k \in Keys |-> 0]
  /\ expirations = [k \in Keys |-> 0]
  /\ pending = EmptyBag
  /\ nreq = [c \in Clients |-> 0]
  /\ last = NoRequest
  /\ window = [c \in Clients |-> NoWindow]
  /\ accepts = [c \in Clients |-> <<>>]

\* a hit that is not one step: with another request of the same client in
\* flight, the check passes on the counter as read and the increment is lost
RacyHit(k) ==
  LET read == StorageGet(storage[k], expirations[k], now)
      count == IF Waiting(k[1]) > 1 THEN read ELSE read + 1
  IN  [count |-> count,
       expiry |-> IF read = 0 THEN now + WINDOW ELSE expirations[k],
       ok |-> WithinLimit(read + 1)]

\* the limiter's hit on a key at the current time: the counter and the expiry
\* after it, and whether the request passes
Hit(k) ==
  LET count == StorageGet(storage[k], expirations[k], now) + 1
  IN  [count |-> count,
       expiry |-> NewExpiry(count, expirations[k], now),
       ok |-> WithinLimit(count)]

\* the response of a request: it is sent and the request is over
Respond(r, status, body, gateway, log) ==
  [r EXCEPT !.pos = Done, !.status = status, !.body = body,
            !.gateway = gateway, !.log = log]

\* @limiter.limit("5/minute"): the hit h on the caller's key decides; a request
\* over the limit is answered 429 and about_me is not called
LimitStep(r, h) ==
  IF h.ok THEN [r EXCEPT !.pos = @ + 1, !.limited = "passed"]
  ELSE Respond([r EXCEPT !.limited = "rejected"], 429, RATE_LIMIT_BODY, r.gateway, "")

\* lines 101-102: an empty or blank message is answered 400
ValidateStep(r) ==
  IF strip(r.msg) = <<>>
  THEN Respond(r, 400, [detail |-> "Message cannot be empty."], r.gateway, "")
  ELSE [r EXCEPT !.pos = @ + 1]

\* lines 104-169 on each message the service is sent: the topic, the length
\* instruction and the prompt depend on the message alone
Prompts ==
  {[msg |-> m,
    prompt |-> BuildPrompt(detect_topic(m), is_simple_question(m), m)] :
     m \in ServiceMessages}

\* lines 104-169: the topic, the length instruction and the prompt
PromptStep(r) ==
  [r EXCEPT !.pos = @ + 1,
            !.classified = TRUE,
            !.prompt = (CHOOSE e \in Prompts : e.msg = r.msg).prompt]

\* lines 171-185: the call, and the response made of its result or of the
\* exception that the call or the reading of its result raises
GatewayStep(r, outcome) ==
  IF outcome = "ok"
  THEN Respond(r, 200, [response |-> strip(CompletionText)], outcome, "")
  ELSE Respond(r, 500, [detail |-> ErrorDetail(ExceptionText(outcome))], outcome,
               ExceptionText(outcome))

\* a request from its place in the order to its response or to the gateway
\* call, whichever comes first
RECURSIVE Run(_, _)
Run(r, h) ==
  IF r.pos = Done THEN r
  ELSE LET stage == Pipeline[r.pos]
       IN  CASE stage = "limit" -> Run(LimitStep(r, h), h)
             [] stage = "validate" -> Run(ValidateStep(r), h)
             [] stage = "prompt" -> Run(PromptStep(r), h)
             [] stage = "gateway" -> r

\* the client's window after one more call at time t
Decided(w, t, ok) ==
  LET fresh == w.decided = 0 \/ t >= w.anchor + WINDOW
  IN  [anchor |-> IF fresh THEN t ELSE w.anchor,
       decided |-> (IF fresh THEN 0 ELSE w.decided) + 1,
       accepted |-> (IF fresh THEN 0 ELSE w.accepted) + (IF ok THEN 1 ELSE 0)]

\* a POST /about-louai arrives and waits for the event loop
Arrive(c) ==
  /\ InFlight < MaxInFlight
  /\ nreq[c] < (IF c = "10.0.0.1" THEN MaxReq ELSE MaxOther)
  /\ nreq' = [nreq EXCEPT ![c] = @ + 1]
  /\ pending' = pending (+) SetToBag({c})
  /\ UNCHANGED <<now, storage, expirations, last, window, accepts>>

\* the event loop runs one waiting request, whose body parses as the Question
\* m, from the limiter's wrapper to the response, without a pause: the wrapper
\* and about_me have no await that yields to the event loop (the call to the
\* gateway is a blocking one)
Handle(c, m) ==
  /\ BagIn(c, pending)
  /\ pending' = pending (-) SetToBag({c})
  /\ LET k == Key(c, "/about-louai")
         h == Hit(k)
         r == Run([NoRequest EXCEPT !.route = "/about-louai", !.pos = 1,
                                    !.client = c, !.msg = m,
                                    !.waiting = Waiting(c) - 1],
                  h)
     IN  /\ IF r.pos = Done THEN last' = r
            ELSE \E outcome \in GatewayOutcomes : last' = GatewayStep(r, outcome)
         /\ IF r.limited = "none"
            THEN UNCHANGED <<storage, expirations, window, accepts>>
            ELSE /\ storage' = [storage EXCEPT ![k] = h.count]
                 /\ expirations' = [expirations EXCEPT ![k] = h.expiry]
                 /\ window' = [window EXCEPT ![c] = Decided(@, now, h.ok)]
                 /\ accepts' = [accepts EXCEPT ![c] = IF h.ok THEN Append(@, now) ELSE @]
  /\ UNCHANGED <<now, nreq>>

\* GET /ping, lines 51-53, behind the limiter if the route is decorated
Ping(c) ==
  /\ LET r == [NoRequest EXCEPT !.route = "/ping", !.pos = Done, !.client = c]
         pong == [r EXCEPT !.status = 200, !.body = [message |-> "pong"]]
     IN  IF "/ping" \in LimitedRoutes
         THEN LET k == Key(c, "/ping")
                  h == Hit(k)
              IN  /\ storage' = [storage EXCEPT ![k] = h.count]
                  /\ expirations' = [expirations EXCEPT ![k] = h.expiry]
                  /\ last' = IF h.ok THEN pong
                             ELSE [r EXCEPT !.status = 429, !.body = RATE_LIMIT_BODY]
         ELSE /\ last' = pong
              /\ UNCHANGED <<storage, expirations>>
  /\ UNCHANGED <<now, pending, nreq, window, accepts>>

\* the accept times that are still within the last 60 seconds at time t
Recent(times, t) == SelectSeq(times, LAMBDA x : x > t - WINDOW)

\* time passes
Tick(d) ==
  /\ now + d <= MaxTime
  /\ now' = now + d
  /\ accepts' = [c \in Clients |-> Recent(accepts[c], now + d)]
  /\ UNCHANGED <<storage, expirations, pending, nreq, last, window>>

PureIdle ==
  /\ q = <<>>
  /\ pc = "idle"
  /\ topic = "none"
  /\ simple = FALSE
  /\ prompt = NoPrompt

Init == ServiceInit /\ PureIdle

Next ==
  \/ \E c \in Clients : Arrive(c) /\ UNCHANGED pvars
  \/ \E c \in Clients, m \in ServiceMessages : Handle(c, m) /\ UNCHANGED pvars
  \/ \E c \in Clients : Ping(c) /\ UNCHANGED pvars
  \/ \E d \in TickSteps : Tick(d) /\ UNCHANGED pvars

Spec == Init /\ [][Next]_vars

(***************************************************************************)
(* The classifiers on their own: one Question through lines 104-169.       *)
(***************************************************************************)
\* a Question and the locals of about_me before line 104
PureInit ==
  /\ ServiceInit
  /\ q \in Messages
  /\ pc = "detect_topic"
  /\ topic = "none"
  /\ simple = FALSE
  /\ prompt = NoPrompt

\* line 104
Detect ==
  /\ pc = "detect_topic"
  /\ topic' = detect_topic(q)
  /\ pc' = "is_simple_question"
  /\ UNCHANGED <<q, simple, prompt>>
  /\ UNCHANGED svars

\* line 105
Simple ==
  /\ pc = "is_simple_question"
  /\ simple' = is_simple_question(q)
  /\ pc' = "prompt"
  /\ UNCHANGED <<q, topic, prompt>>
  /\ UNCHANGED svars

\* lines 107-169
Build ==
  /\ pc = "prompt"
  /\ prompt' = BuildPrompt(topic, simple, q)
  /\ pc' = "built"
  /\ UNCHANGED <<q, topic, simple>>
  /\ UNCHANGED svars

PureNext == Detect \/ Simple \/ Build

PureSpec == PureInit /\ [][PureNext]_vars

(***************************************************************************)
(* The properties.                                                         *)
(***************************************************************************)
About == "/about-louai"

\* a message that is empty or made of white space only
IsBlank(m) == \A i \in 1..Len(m) : m[i] \in Whitespace

Min(a, b) == IF a <= b THEN a ELSE b

\* C1 as claimed: whatever the time, a client has at most 5 requests accepted
\* in the 60 seconds that end now (a sliding window).
C1_SlidingWindow ==
  \A c \in Clients : Len(accepts[c]) <= 5

\* C1 amended: in each fixed window of a client (the 60 seconds that begin
\* with its first call outside an earlier window) at most 5 requests are
\* accepted, and the limiter's counter and expiry of the client are those of
\* its own calls in that window: calls of other clients do not count.
C1_FixedWindow ==
  \A c \in Clients :
    /\ window[c].accepted <= 5
    /\ window[c].decided > 0 =>
         /\ storage[Key(c, About)] = window[c].decided
         /\ expirations[Key(c, About)] = window[c].anchor + 60

\* a client over its limit in its window while the other client was accepted,
\* and more than 5 of its requests accepted within 60 seconds
C1_Witness ==
  \E c \in Clients, d \in Clients :
    /\ c # d
    /\ window[c].accepted = 5
    /\ window[c].decided > 5
    /\ window[d].accepted >= 1
    /\ storage[Key(d, About)] = 1

C3_BlankAlways400 ==
  (last.route = About /\ IsBlank(last.msg)) => last.status = 400

\* C3 amended: a POST /about-louai with an empty or blank message is answered
\* 400 if it passes the rate limiter and 429 if it does not (the limiter runs
\* before the validation), and no gateway call is made for it.
C3_BlankNoGateway ==
  (last.route = About /\ IsBlank(last.msg)) =>
    /\ last.limited = "passed" => last.status = 400
    /\ last.limited = "rejected" => last.status = 429
    /\ last.limited \in {"passed", "rejected"}
    /\ last.gateway = "none"

\* a blank message answered 400 and an empty one answered 429
C3_Witness ==
  /\ last.route = About
  /\ last.msg = <<>>
  /\ last.status = 429
  /\ window[last.client].accepted = 5

\* C4: when the gateway call or the reading of its result fails, the response
\* is a 500 whose detail is the fixed text, never the text of the exception.
C4_GenericError ==
  (last.route = About /\ last.gateway \in GatewayOutcomes \ {"ok"}) =>
    /\ last.status = 500
    /\ last.body = [detail |-> "Something went wrong while processing your request."]
    /\ last.body.detail # ExceptionText(last.gateway)
    /\ last.log = ExceptionText(last.gateway)

\* a request whose completion had no content
C4_Witness ==
  /\ last.route = About
  /\ last.gateway = "null_content"
  /\ last.status = 500

\* C5 as claimed: "What languages do you speak?" is classified as languages
\* and its prompt is the languages template.
C5_LanguagesTopic ==
  (q = LanguagesQuestion /\ pc = "built") =>
    topic = "languages" /\ prompt.template = "languages"

\* keyword kw occurs in message m, whatever the case of the letters
Occurs(kw, m) ==
  \E i \in 0..(Len(m) - Len(kw)) :
    \A j \in 1..Len(kw) : LowerChar(m[i + j]) = LowerChar(kw[j])

\* the keywords the table gives a topic
KeywordsOf(t) ==
  LET e == CHOOSE i \in 1..Len(KEY_TOPICS) : KEY_TOPICS[i].topic = t
  IN  {KEY_TOPICS[e].keywords[k] : k \in 1..Len(KEY_TOPICS[e].keywords)}

Matches(t, m) == \E kw \in KeywordsOf(t) : Occurs(kw, m)

TopicOrder == <<"skills", "projects", "personality", "goals", "languages">>

\* C6: detect_topic returns, for every message, the earliest topic in the
\* order skills, projects, personality, goals, languages that has a keyword
\* occurring in the message in any case, and general exactly when none has.
C6_FirstMatch ==
  pc # "detect_topic" =>
    /\ topic \in {"skills", "projects", "personality", "goals", "languages", "general"}
    /\ \A i \in 1..Len(TopicOrder) :
         topic = TopicOrder[i] <=>
           /\ Matches(TopicOrder[i], q)
           /\ \A j \in 1..(i - 1) : ~Matches(TopicOrder[j], q)
    /\ topic = "general" <=> \A i \in 1..Len(TopicOrder) : ~Matches(TopicOrder[i], q)

\* a message in mixed case with a keyword of projects and one of languages,
\* classified as projects
C6_Witness ==
  /\ pc = "built"
  /\ topic = "projects"
  /\ Matches("languages", q)
  /\ lower(q) # q

\* a client's quota on POST /about-louai
Quota(c) == <<storage[Key(c, About)], expirations[Key(c, About)], window[c]>>

\* C7: GET /ping is answered 200 {"message": "pong"} in every state, never
\* 429, and serving it leaves every client's quota on /about-louai as it was.
C7_PingAlwaysPong ==
  /\ [](last.route = "/ping" =>
          last.status = 200 /\ last.body = [message |-> "pong"])
  /\ [][(\E c \in Clients : Ping(c)) =>
          \A c \in Clients : Quota(c)' = Quota(c)]_vars

\* a ping answered while its client is over the limit on /about-louai
C7_Witness ==
  /\ last.route = "/ping"
  /\ last.status = 200
  /\ storage[Key(last.client, About)] > 5
  /\ expirations[Key(last.client, About)] > now

\* C8: a request answered 429 was never classified, had no prompt built and
\* made no gateway call.
C8_RejectedStopsEarly ==
  (last.route = About /\ last.status = 429) =>
    /\ ~last.classified
    /\ last.prompt = NoPrompt
    /\ last.gateway = "none"

\* a question that is not blank, answered 429
C8_Witness ==
  /\ last.route = About
  /\ last.status = 429
  /\ ~IsBlank(last.msg)

\* C9: a request that was classified, had a prompt built or made the gateway
\* call has a message that is not empty once its white space is trimmed.
C9_NonBlankPastValidation ==
  (last.route = About
     /\ (last.classified \/ last.prompt # NoPrompt \/ last.gateway # "none")) =>
    ~IsBlank(last.msg)

\* a question that reached the gateway, after a blank one was turned away
C9_Witness ==
  /\ last.route = About
  /\ last.classified
  /\ last.gateway = "ok"
  /\ last.status = 200
  /\ nreq[last.client] > 1

\* C10: whatever the order in which waiting requests of a client are run, the
\* calls accepted in its window are the first 5 decided: of n decided, exactly
\* min(5, n) are accepted and the others are answered 429.
C10_AtomicHit ==
  /\ \A c \in Clients : window[c].accepted = Min(5, window[c].decided)
  /\ (last.route = About /\ last.limited = "rejected") => last.status = 429

\* the fifth call of a window accepted while another request of the same
\* client waits: of the two in flight one is accepted
C10_Witness ==
  /\ last.route = About
  /\ last.waiting >= 1
  /\ last.limited = "passed"
  /\ window[last.client].decided = 5
  /\ window[last.client].accepted = 5
====
